---- MODULE Spec2Model ----
(***************************************************************************)
(* Token reduction engine of models/evit.py (EViT with cross-layer cache). *)
(*                                                                         *)
(* One batch item is modelled: every tensor operation of Block.forward     *)
(* and EViT.forward acts independently along the batch dimension.  Only    *)
(* complement_idx is modelled on a whole batch (a sequence of rows).       *)
(* Token features have one channel; feature values, attention weights and  *)
(* keep rates are exact rationals <<numerator, denominator>>.  Tensor      *)
(* positions are 0-based as in the source; TLA+ sequences are 1-based, so  *)
(* position p of a tensor is element p + 1 of the sequence modelling it.   *)
(***************************************************************************)
EXTENDS Integers, Sequences, FiniteSets, TLC

(***************************************************************************)
(* Bounds of the model.                                                    *)
(***************************************************************************)
\* attention weights are multiples of 1 / AttnDen
AttnDen == 16
\* the residual a sublayer adds to every token
Residual == 1
\* number of transformer blocks (depth)
Depth == 4
\* number of patches of the input image
NumPatches == 3
\* largest dim of the inputs on which complement_idx is applied directly
MaxDim == 3

(***************************************************************************)
(* Exact rational arithmetic.                                              *)
(***************************************************************************)
RECURSIVE GCD(_, _)
GCD(a, b) == IF b = 0 THEN a ELSE GCD(b, a % b)

Abs(a) == IF a < 0 THEN -a ELSE a

\* the rational n / d in lowest terms, d > 0
Rat(n, d) ==
    LET g == GCD(Abs(n), Abs(d))
        s == IF d < 0 THEN -1 ELSE 1
    IN  <<s * (n \div g), s * (d \div g)>>

RatInt(n) == <<n, 1>>
RatAdd(p, q) ==
    LET g == GCD(p[2], q[2])
    IN  Rat(p[1] * (q[2] \div g) + q[1] * (p[2] \div g), p[2] * (q[2] \div g))
RatMul(p, q) ==
    LET a == Rat(p[1], q[2])
        b == Rat(q[1], p[2])
    IN  <<a[1] * b[1], a[2] * b[2]>>
RatLess(p, q) == p[1] * q[2] < q[1] * p[2]
RatLeq(p, q) == p[1] * q[2] <= q[1] * p[2]

\* math.ceil(p) for a rational p
Ceil(p) == -((-p[1]) \div p[2])

RECURSIVE RatSum(_)
RatSum(s) == IF s = <<>> THEN RatInt(0) ELSE RatAdd(s[1], RatSum(Tail(s)))

(***************************************************************************)
(* Tensor primitives on one row (a sequence).                              *)
(***************************************************************************)
\* torch.arange(dim)
Arange(dim) == [p \in 1..dim |-> p - 1]

\* torch.scatter(a, -1, idx, v): a with v written at every position idx[k]
Scatter(a, idx, v) ==
    [p \in 1..Len(a) |-> IF \E k \in 1..Len(idx) : idx[k] = p - 1 THEN v ELSE a[p]]

\* torch.gather(a, idx): the elements of a at the positions idx[k]
Gather(a, idx) == [k \in 1..Len(idx) |-> a[idx[k] + 1]]

RECURSIVE Insert(_, _)
Insert(v, s) ==
    IF s = <<>> THEN <<v>>
    ELSE IF v <= s[1] THEN <<v>> \o s
    ELSE <<s[1]>> \o Insert(v, Tail(s))

\* torch.sort(a, descending=False), values only
RECURSIVE SortAsc(_)
SortAsc(a) == IF a = <<>> THEN <<>> ELSE Insert(a[1], SortAsc(Tail(a)))

\* a[n:]
DropFirst(a, n) == IF n >= Len(a) THEN <<>> ELSE SubSeq(a, n + 1, Len(a))
\* a[-n:] (Python: the whole of a when n = 0 or n >= len(a))
LastN(a, n) == IF n <= 0 \/ n >= Len(a) THEN a ELSE SubSeq(a, Len(a) - n + 1, Len(a))

Range(s) == {s[k] : k \in DOMAIN s}
NoDup(s) == \A j, k \in DOMAIN s : j # k => s[j] # s[k]

(***************************************************************************)
(* complement_idx (evit.py 60-81).  idx is a batch: a sequence of rows,    *)
(* every row a sequence of n_idx indices.                                  *)
(***************************************************************************)
\* faulty variant: one entry too many is dropped after the sort
complement_idx_off_by_one(idx, dim) ==
    LET n_idx  == IF idx = <<>> THEN 0 ELSE Len(idx[1])
        masked == [b \in DOMAIN idx |-> Scatter(Arange(dim), idx[b], 0)]
        compl  == [b \in DOMAIN idx |-> SortAsc(masked[b])]
    IN  [b \in DOMAIN idx |-> DropFirst(compl[b], n_idx + 1)]

\* faulty variant: the last n_idx entries are dropped after the sort
complement_idx_drop_tail(idx, dim) ==
    [b \in DOMAIN idx |->
        LET a      == Arange(dim)
            masked == Scatter(a, idx[b], 0)
            compl  == SortAsc(masked)
        IN  SubSeq(compl, 1, dim - Len(idx[b]))]

\* faulty variant: the kept positions are marked with dim instead of 0
complement_idx_high_marker(idx, dim) ==
    LET n_idx  == IF idx = <<>> THEN 0 ELSE Len(idx[1])
        masked == [b \in DOMAIN idx |-> Scatter(Arange(dim), idx[b], dim)]
        compl  == [b \in DOMAIN idx |-> SortAsc(masked[b])]
    IN  [b \in DOMAIN idx |-> DropFirst(compl[b], n_idx)]

complement_idx(idx, dim) ==
    LET n_idx  == IF idx = <<>> THEN 0 ELSE Len(idx[1])
        a      == [b \in DOMAIN idx |-> Arange(dim)]
        masked == [b \in DOMAIN idx |-> Scatter(a[b], idx[b], 0)]
        compl  == [b \in DOMAIN idx |-> SortAsc(masked[b])]
    IN  [b \in DOMAIN idx |-> DropFirst(compl[b], n_idx)]

(***************************************************************************)
(* torch.topk(scores, k, largest=True, sorted=True), indices only.  The    *)
(* result holds the k largest scores in descending order; which of several *)
(* equal scores comes first, or is taken at all, is not specified, so the  *)
(* operator yields the set of all results torch may return.                *)
(***************************************************************************)
ArgMax(scores, avail) ==
    {p \in avail : \A q \in avail : RatLeq(scores[q + 1], scores[p + 1])}

RECURSIVE TopKFrom(_, _, _)
TopKFrom(scores, k, avail) ==
    IF k = 0 THEN {<<>>}
    ELSE UNION {{<<p>> \o r : r \in TopKFrom(scores, k - 1, avail \ {p})} :
                p \in ArgMax(scores, avail)}

\* faulty variant: the first score is left out of the selection
topk_skips_first(scores, k) ==
    TopKFrom(scores, k, {p - 1 : p \in DOMAIN scores} \ {0})

\* faulty variant: the last index is exempt from the selection
topk_exempts_last(scores, k) ==
    TopKFrom(scores, k, {p - 1 : p \in DOMAIN scores} \ {Len(scores) - 1})

topk(scores, k) == TopKFrom(scores, k, {p - 1 : p \in DOMAIN scores})

(***************************************************************************)
(* Tokens.  kind and k name a token (the class token, register token k,    *)
(* patch k, carrier token k, the token fused at stage k, the pooled token  *)
(* of stage k); inj tells that the token entered the sequence out of the   *)
(* cross-layer cache; val is its feature value.                            *)
(***************************************************************************)
Token(kind, k, val) == [kind |-> kind, k |-> k, val |-> val, inj |-> FALSE]
TokId(t) == <<t.kind, t.k, t.inj>>
Ids(s) == [p \in DOMAIN s |-> TokId(s[p])]

\* x + tmp, tmp one number per token
AddTo(s, tmp) == [p \in DOMAIN s |-> [s[p] EXCEPT !.val = RatAdd(@, RatInt(tmp[p]))]]

\* a Python Optional
None == [some |-> FALSE, v |-> <<>>]
Some(v) == [some |-> TRUE, v |-> v]

(***************************************************************************)
(* The sublayers are collaborators of the engine.  A sublayer adds         *)
(* Residual to every token.  The attention weights attn[h][q][c] (head h,  *)
(* query position q - 1, key position c - 1) are an input of the           *)
(* reduction: along the row of the class token they follow, per head, one  *)
(* of four patterns, scaled by 2^(h-1) so that heads differ; two of the    *)
(* patterns hold a pair of equal weights.                                  *)
(***************************************************************************)
AttnPatterns == {"asc", "desc", "tie_low", "tie_high"}

Pattern(pat, j, n) ==
    CASE pat = "asc"      -> j
      [] pat = "desc"     -> n + 1 - j
      [] pat = "tie_low"  -> IF j = 1 /\ n > 1 THEN 2 ELSE j
      [] pat = "tie_high" -> IF j = n /\ n > 1 THEN n - 1 ELSE j

AttnTable(pats, N) ==
    [h \in DOMAIN pats |-> [q \in 1..N |-> [c \in 1..N |->
        IF q = 1 /\ c > 1
        THEN Rat((2 ^ (h - 1)) * Pattern(pats[h], c - 1, N - 1), AttnDen)
        ELSE Rat(1, AttnDen)]]]

\* Attention.forward (evit.py 112-129): the pairs (x, attn) it may return
Attention_forward(N, num_heads) ==
    {[tmp |-> [p \in 1..N |-> Residual], attn |-> AttnTable(pats, N)] :
        pats \in [1..num_heads -> AttnPatterns]}

\* Mlp.forward: the residual it returns
Mlp_forward(N) == [p \in 1..N |-> Residual]

(***************************************************************************)
(* Block.forward (evit.py 192-234), in two steps: lines 193-227 (attention *)
(* and reduction) and lines 229-234 (feed-forward and return).             *)
(***************************************************************************)
\* faulty variant: the check is keep_rate <= 1
keep_rate_le_1(keep_rate) == RatLeq(keep_rate, RatInt(1))

\* line 205: the double check of the keep rate
keep_rate_lt_1(keep_rate) == RatLess(keep_rate, RatInt(1))

\* faulty variant: the product is truncated (int) instead of rounded up
left_tokens_truncated(keep_rate, N) ==
    (keep_rate[1] * (N - 1)) \div keep_rate[2]

\* faulty variant: the product is rounded to the nearest integer
left_tokens_rounded(keep_rate, N) ==
    (2 * keep_rate[1] * (N - 1) + keep_rate[2]) \div (2 * keep_rate[2])

\* line 206
left_tokens_of(keep_rate, N) == Ceil(RatMul(keep_rate, RatInt(N - 1)))

\* lines 209-210: attn[:, :, 0, 1:].mean(dim=1)
cls_attn_of(attn, N) ==
    [j \in 1..(N - 1) |->
        RatMul(RatSum([h \in DOMAIN attn |-> attn[h][1][j + 1]]), Rat(1, Len(attn)))]

\* faulty variant: the weights are renormalised to sum to one (a weighted average)
extra_token_val_normalised(non_topk, non_topk_attn) ==
    LET total == RatSum(non_topk_attn)
    IN  RatMul(RatSum([j \in DOMAIN non_topk |->
                          RatMul(non_topk[j].val, non_topk_attn[j])]),
               <<total[2], total[1]>>)

\* line 222: torch.sum(non_topk * non_topk_attn.unsqueeze(-1), dim=1, keepdim=True)
extra_token_val(non_topk, non_topk_attn) ==
    RatSum([j \in DOMAIN non_topk |-> RatMul(non_topk[j].val, non_topk_attn[j])])

\* faulty variant: the kept tokens are gathered in their original positional order
reduce_with_positional(x, cls_attn, idx, stage) ==
    LET N             == Len(x)
        non_cls       == DropFirst(x, 1)
        x_others      == Gather(non_cls, SortAsc(idx))
        compl         == complement_idx(<<idx>>, N - 1)[1]
        non_topk      == Gather(non_cls, compl)
        non_topk_attn == Gather(cls_attn, compl)
        extra_token   == Token("fused", stage, extra_token_val(non_topk, non_topk_attn))
    IN  [x     |-> <<x[1]>> \o x_others \o <<extra_token>>,
         index |-> Some(idx),
         idx   |-> idx \o <<-1>>,
         compl |-> compl]

\* lines 211-225 for one result idx of topk
\* faulty variant: the fused token is appended twice
reduce_with_two_fused(x, cls_attn, idx, stage) ==
    LET N             == Len(x)
        non_cls       == DropFirst(x, 1)
        x_others      == Gather(non_cls, idx)
        compl         == complement_idx(<<idx>>, N - 1)[1]
        non_topk      == Gather(non_cls, compl)
        non_topk_attn == Gather(cls_attn, compl)
        extra_token   == Token("fused", stage, extra_token_val(non_topk, non_topk_attn))
    IN  [x     |-> <<x[1]>> \o x_others \o <<extra_token, extra_token>>,
         index |-> Some(idx),
         idx   |-> idx \o <<-1>>,
         compl |-> compl]

\* faulty variant: the trace has no entry for the fused token
reduce_with_no_sentinel(x, cls_attn, idx, stage) ==
    LET N             == Len(x)
        non_cls       == DropFirst(x, 1)
        x_others      == Gather(non_cls, idx)
        compl         == complement_idx(<<idx>>, N - 1)[1]
        non_topk      == Gather(non_cls, compl)
        non_topk_attn == Gather(cls_attn, compl)
        extra_token   == Token("fused", stage, extra_token_val(non_topk, non_topk_attn))
    IN  [x     |-> <<x[1]>> \o x_others \o <<extra_token>>,
         index |-> Some(idx),
         idx   |-> idx,
         compl |-> compl]

reduce_with(x, cls_attn, idx, stage) ==
    LET N             == Len(x)
        non_cls       == DropFirst(x, 1)
        x_others      == Gather(non_cls, idx)
        compl         == complement_idx(<<idx>>, N - 1)[1]
        non_topk      == Gather(non_cls, compl)
        non_topk_attn == Gather(cls_attn, compl)
        extra_token   == Token("fused", stage, extra_token_val(non_topk, non_topk_attn))
    IN  [x     |-> <<x[1]>> \o x_others \o <<extra_token>>,
         index |-> Some(idx),
         idx   |-> idx \o <<-1>>,
         compl |-> compl]

\* the locals of Block.forward after line 227, for every result the
\* attention sublayer and topk may give
Block_reduce(keep_rate, num_heads, x0, stage) ==
    LET N == Len(x0)
        left_tokens == left_tokens_of(keep_rate, N)
        base(a) == [x_in |-> Ids(x0), x_attn |-> AddTo(x0, a.tmp), attn |-> <<>>,
                    cls_attn |-> <<>>, left_tokens |-> left_tokens,
                    x |-> AddTo(x0, a.tmp), index |-> None, bound |-> TRUE,
                    idx |-> <<>>, compl |-> <<>>, err |-> "", n_tokens |-> -1,
                    ret_idx |-> None, ret_compl |-> None]
        step(a) ==
            IF keep_rate_lt_1(keep_rate)
            THEN IF left_tokens # N - 1
                 THEN IF left_tokens >= 1
                      THEN LET cls_attn == cls_attn_of(a.attn, N)
                           IN  {[[base(a) EXCEPT !.attn = a.attn, !.cls_attn = cls_attn]
                                    EXCEPT !.x = r.x, !.index = r.index,
                                           !.idx = r.idx, !.compl = r.compl] :
                                 r \in {reduce_with(base(a).x_attn, cls_attn, idx, stage) :
                                           idx \in topk(cls_attn, left_tokens)}}
                      ELSE {[base(a) EXCEPT !.err = "AssertionError"]}
                 ELSE {[base(a) EXCEPT !.bound = FALSE]}
            ELSE {base(a)}
    IN  UNION {step(a) : a \in Attention_forward(N, num_heads)}

\* faulty variant: no feed-forward sublayer after the reduction
Block_mlp_skipped(b) ==
    [b EXCEPT !.n_tokens = Len(b.x) - 1,
              !.err = IF b.bound THEN "" ELSE "UnboundLocalError",
              !.ret_idx = IF b.bound /\ b.index.some THEN Some(b.idx) ELSE None,
              !.ret_compl = IF b.bound /\ b.index.some THEN Some(b.compl) ELSE None]

\* lines 229-234: the feed-forward sublayer and the return
Block_mlp(b) ==
    [b EXCEPT !.x = AddTo(b.x, Mlp_forward(Len(b.x))),
              !.n_tokens = Len(b.x) - 1,
              !.err = IF b.bound THEN "" ELSE "UnboundLocalError",
              !.ret_idx = IF b.bound /\ b.index.some THEN Some(b.idx) ELSE None,
              !.ret_compl = IF b.bound /\ b.index.some THEN Some(b.compl) ELSE None]

(***************************************************************************)
(* EViT.__init__ (evit.py 245-427): the reduction schedule and the flags   *)
(* of the cross-layer cache.  args holds the constructor's arguments.      *)
(***************************************************************************)
\* a Python list index: loc in -n .. n-1 names element loc (or n + loc) of a
\* list of n elements, counted from 0; any other loc raises IndexError
ListIndexOk(loc, n) == -n <= loc /\ loc < n
ListPos(loc, n) == IF loc < 0 THEN n + loc + 1 ELSE loc + 1

\* faulty variant: a single rate is not repeated over the locations
token_ratio_not_repeated(a) == a.keep_rate

\* lines 330-332
token_ratio_of(a) ==
    IF Len(a.keep_rate) = 1
    THEN [k \in 1..Len(a.reduction_loc) |-> a.keep_rate[1]]
    ELSE a.keep_rate

\* faulty variant: rate k is stored at stage k, not at stage reduction_loc[k]
RECURSIVE token_ratio_full_by_position(_, _, _, _)
token_ratio_full_by_position(depth, reduction_loc, token_ratio, n) ==
    IF n = 0 THEN [k \in 1..depth |-> RatInt(1)]
    ELSE [token_ratio_full_by_position(depth, reduction_loc, token_ratio, n - 1)
            EXCEPT ![ListPos(n - 1, depth)] = token_ratio[n]]

\* lines 337-339, the loop unrolled from its last iteration backwards
RECURSIVE token_ratio_full_of(_, _, _, _)
token_ratio_full_of(depth, reduction_loc, token_ratio, n) ==
    IF n = 0 THEN [k \in 1..depth |-> RatInt(1)]
    ELSE [token_ratio_full_of(depth, reduction_loc, token_ratio, n - 1)
            EXCEPT ![ListPos(reduction_loc[n], depth)] = token_ratio[n]]

\* lines 412-416
recovery_layers_of(a) ==
    IF a.clc_recover_at_last
    THEN a.reduction_loc \o <<a.depth - 2>>
    ELSE a.reduction_loc

\* line 190: the assertion of Block.__init__
keep_rate_ok(keep_rate) == RatLess(RatInt(0), keep_rate) /\ RatLeq(keep_rate, RatInt(1))

\* faulty variant: the carriers of the cache are not checked
EViT_init_err_no_carrier_check(a) ==
    LET token_ratio == token_ratio_of(a)
    IN  IF Len(token_ratio) # Len(a.reduction_loc) THEN "AssertionError"
        ELSE IF \E k \in DOMAIN a.reduction_loc :
                    ~ListIndexOk(a.reduction_loc[k], a.depth) THEN "IndexError"
        ELSE IF \E k \in 1..a.depth :
                    ~keep_rate_ok(token_ratio_full_of(a.depth, a.reduction_loc,
                                    token_ratio, Len(token_ratio))[k])
             THEN "AssertionError"
        ELSE ""

\* the error __init__ raises on a, "" when it returns
EViT_init_err(a) ==
    LET token_ratio == token_ratio_of(a)
    IN  IF Len(token_ratio) # Len(a.reduction_loc) THEN "AssertionError"
        ELSE IF \E k \in DOMAIN a.reduction_loc :
                    ~ListIndexOk(a.reduction_loc[k], a.depth) THEN "IndexError"
        ELSE IF \E k \in 1..a.depth :
                    ~keep_rate_ok(token_ratio_full_of(a.depth, a.reduction_loc,
                                    token_ratio, Len(token_ratio))[k])
             THEN "AssertionError"
        ELSE IF a.clc /\ ~(a.num_clr # 0 \/ a.clc_include_gap) THEN "AssertionError"
        ELSE ""

\* the attributes of the constructed model
EViT_init_self(a) ==
    LET token_ratio == token_ratio_of(a)
    IN  [depth             |-> a.depth,
         num_prefix_tokens |-> 1 + a.reg_tokens,
         num_reg_tokens    |-> a.reg_tokens,
         num_patches       |-> a.num_patches,
         num_heads         |-> a.num_heads,
         reduction_loc     |-> a.reduction_loc,
         token_ratio       |-> token_ratio,
         blocks            |-> token_ratio_full_of(a.depth, a.reduction_loc,
                                   token_ratio, Len(token_ratio)),
         recovery_layers   |-> recovery_layers_of(a),
         clc               |-> a.clc,
         clc_include_gap   |-> a.clc_include_gap,
         clc_pool_cls      |-> a.clc_pool_cls,
         clc_pool_clr      |-> a.clc_pool_clr,
         ifa_head          |-> a.ifa_head,
         inter_feats       |-> 0,
         has_clr           |-> FALSE,
         num_clr           |-> 0]

\* the model before construction
NoSelf == [depth |-> 0]

\* add_clr (evit.py 507-523) with num_clr > 0: attaches the carrier tokens
add_clr(slf, num_clr) == [slf EXCEPT !.has_clr = TRUE, !.num_clr = num_clr]

(***************************************************************************)
(* EViT._pos_embed (evit.py 525-560): class token, register tokens, patch  *)
(* tokens, then the carrier tokens when they are attached.  Patch k enters *)
(* with value k; class, register and carrier tokens with value 0.          *)
(***************************************************************************)
pos_embed(slf) ==
    <<Token("cls", 0, RatInt(0))>>
    \o [k \in 1..slf.num_reg_tokens |-> Token("reg", k, RatInt(0))]
    \o [k \in 1..slf.num_patches |-> Token("patch", k, RatInt(k))]
    \o (IF slf.has_clr THEN [k \in 1..slf.num_clr |-> Token("clr", k, RatInt(0))]
        ELSE <<>>)

(***************************************************************************)
(* The state: the constructor's arguments, the constructed model, and the  *)
(* locals of one call of EViT.forward (evit.py 619-699).                   *)
(***************************************************************************)
VARIABLES
    args,               \* the arguments of EViT.__init__ and of add_clr
    self,               \* the attributes of the model
    pc,                 \* the position in __init__ / forward
    err,                \* the exception that ended the call, "" when none
    i,                  \* the loop index of forward: the stage
    x,                  \* the token sequence of forward
    blk,                \* the locals and results of the last Block.forward
    cross_layer_cache,  \* the cache buffer: a list of carrier entries
    curr_num_pool,      \* the end of the range pooled into the carrier
    cls_list,           \* the snapshots of position 0 (an Optional list)
    fn_in,              \* complement_idx applied directly: its arguments
    fn_out,             \* ... and its results
    shape,              \* the shape-level pass: x.shape[1]
    calls               \* two calls of forward on one model: their locals

vars == <<args, self, pc, err, i, x, blk, cross_layer_cache, curr_num_pool,
          cls_list, fn_in, fn_out, shape, calls>>

pass_vars == <<i, x, blk, cross_layer_cache, curr_num_pool, cls_list>>
other_vars == <<fn_in, fn_out, shape, calls>>

NoBlk == [bound |-> TRUE, err |-> ""]

(***************************************************************************)
(* The configurations tried.                                               *)
(***************************************************************************)
Rates == {<<1, 2>>, <<3, 4>>}

LocSeqs ==
    {<<a>> : a \in 0..(Depth - 1)} \cup {<<a, b>> : a, b \in 0..(Depth - 1)}

\* one rate for all locations, or one rate per location
KeepRatesFor(loc) ==
    {<<r>> : r \in Rates}
    \cup {kr \in [1..Len(loc) -> Rates] : \E j, k \in 1..Len(loc) : kr[j] # kr[k]}

CacheModes ==
    {[clc |-> FALSE, clc_include_gap |-> FALSE, num_clr |-> 0, add_clr |-> 0,
      clc_recover_at_last |-> FALSE]}
    \cup {[clc |-> TRUE, clc_include_gap |-> g, num_clr |-> n, add_clr |-> n,
           clc_recover_at_last |-> ral] :
            g \in BOOLEAN, n \in {0, 1}, ral \in BOOLEAN}
    \* args.num_clr set, add_clr never called
    \cup {[clc |-> TRUE, clc_include_gap |-> FALSE, num_clr |-> 1, add_clr |-> 0,
           clc_recover_at_last |-> ral] : ral \in BOOLEAN}

ArgsSet ==
    {[depth |-> Depth, reduction_loc |-> loc, keep_rate |-> kr,
      reg_tokens |-> reg, num_patches |-> NumPatches, num_heads |-> nh,
      clc |-> m.clc, clc_include_gap |-> m.clc_include_gap,
      clc_pool_cls |-> FALSE, clc_pool_clr |-> FALSE,
      clc_recover_at_last |-> m.clc_recover_at_last,
      num_clr |-> m.num_clr, add_clr |-> m.add_clr, ifa_head |-> ifa] :
        loc \in LocSeqs, kr \in UNION {KeepRatesFor(l) : l \in LocSeqs},
        reg \in {0, 1}, m \in CacheModes, ifa \in BOOLEAN, nh \in {1, 2}}

ArgsOk(a) ==
    /\ a.keep_rate \in KeepRatesFor(a.reduction_loc)
    /\ a.ifa_head => (~a.clc /\ a.reg_tokens = 0)
    /\ a.reg_tokens = 1 => ~a.clc
    /\ a.num_heads = (IF a.clc THEN 1 ELSE 2)

Init ==
    /\ args \in {a \in ArgsSet : ArgsOk(a)}
    /\ self = NoSelf
    /\ pc = "new"
    /\ err = ""
    /\ i = 0
    /\ x = <<>>
    /\ blk = NoBlk
    /\ cross_layer_cache = <<>>
    /\ curr_num_pool = 0
    /\ cls_list = None
    /\ fn_in = <<>>
    /\ fn_out = <<>>
    /\ shape = 0
    /\ calls = <<>>

Raise(e) ==
    /\ pc' = "error"
    /\ err' = e

\* EViT.__init__
EViT_init ==
    /\ pc = "new"
    /\ IF EViT_init_err(args) = ""
       THEN /\ self' = EViT_init_self(args)
            /\ pc' = "ready"
            /\ err' = ""
       ELSE /\ Raise(EViT_init_err(args))
            /\ self' = self
    /\ UNCHANGED <<args, pass_vars, other_vars>>

\* add_clr(num_clr), called by the owner of the model before the pass
AddClr ==
    /\ pc = "ready"
    /\ args.add_clr > 0
    /\ ~self.has_clr
    /\ self' = add_clr(self, args.add_clr)
    /\ UNCHANGED <<args, pc, err, pass_vars, other_vars>>

\* reset_classifier (evit.py 464-505): with ifa_head it builds the head over
\* inter_feats = len(reduction_loc) + 1 snapshots (line 468); without, it
\* replaces the linear head, which has no part in the state
reset_classifier(slf) ==
    IF slf.ifa_head THEN [slf EXCEPT !.inter_feats = Len(slf.reduction_loc) + 1]
    ELSE slf

\* reset_classifier(num_classes), called by the owner of the model before
\* the pass
ResetClassifier ==
    /\ pc = "ready"
    /\ self.ifa_head
    /\ self.inter_feats = 0
    /\ self' = reset_classifier(self)
    /\ UNCHANGED <<args, pc, err, pass_vars, other_vars>>

\* forward, lines 620-635
Forward_begin ==
    /\ pc = "ready"
    /\ args.add_clr > 0 => self.has_clr
    /\ self.ifa_head => self.inter_feats > 0
    /\ x' = pos_embed(self)
    /\ cls_list' = IF self.ifa_head # FALSE THEN Some(<<>>) ELSE None
    /\ cross_layer_cache' = <<>>
    /\ curr_num_pool' = IF self.has_clr /\ ~self.clc_pool_clr
                        THEN Len(pos_embed(self)) - self.num_clr
                        ELSE Len(pos_embed(self))
    /\ i' = 0
    /\ pc' = "block"
    /\ UNCHANGED <<args, self, err, blk, other_vars>>

\* forward, line 638: the call of blk, up to line 227 of Block.forward
Block_attn_reduce ==
    /\ pc = "block"
    /\ \E b \in Block_reduce(self.blocks[i + 1], self.num_heads, x, i) :
          /\ blk' = b
          /\ IF b.err # "" THEN Raise(b.err) ELSE pc' = "mlp" /\ err' = err
    /\ UNCHANGED <<args, self, i, x, cross_layer_cache, curr_num_pool, cls_list,
                   other_vars>>

\* Block.forward lines 229-234 and the assignment of its results at line 638
Block_mlp_return ==
    /\ pc = "mlp"
    /\ LET b == Block_mlp(blk)
       IN  /\ blk' = b
           /\ IF b.err # ""
              THEN Raise(b.err) /\ x' = x
              ELSE pc' = "recover" /\ err' = err /\ x' = b.x
    /\ UNCHANGED <<args, self, i, cross_layer_cache, curr_num_pool, cls_list,
                   other_vars>>

\* torch.cat(list, dim=1) of a non-empty list of token sequences
RECURSIVE Cat(_)
Cat(list) == IF list = <<>> THEN <<>> ELSE list[1] \o Cat(Tail(list))

\* x[:, lo:hi]
Slice(s, lo, hi) ==
    LET h == IF hi > Len(s) THEN Len(s) ELSE hi
    IN  IF lo >= h THEN <<>> ELSE SubSeq(s, lo + 1, h)

\* einops reduce(feats, 'b s d -> b 1 d', 'mean') of a non-empty range
mean_of(feats) ==
    RatMul(RatSum([p \in DOMAIN feats |-> feats[p].val]), Rat(1, Len(feats)))

\* tokens entering the sequence out of the cache
Injected(s) == [p \in DOMAIN s |-> [s[p] EXCEPT !.inj = TRUE]]

\* faulty variant: the buffer is not cleared after the concatenation
recover_step_keeps_cache(xs, cache) ==
    [curr_num_pool     |-> Len(xs),
     x                 |-> xs \o Injected(Cat(cache)),
     cross_layer_cache |-> cache]

\* faulty variant: the newest entry is concatenated first
recover_step_newest_first(xs, cache) ==
    [curr_num_pool     |-> Len(xs),
     x                 |-> xs \o Injected(Cat([k \in DOMAIN cache |->
                                                  cache[Len(cache) + 1 - k]])),
     cross_layer_cache |-> <<>>]

\* lines 650-653: the new curr_num_pool, x and cross_layer_cache
recover_step(xs, cache) ==
    [curr_num_pool     |-> Len(xs),
     x                 |-> xs \o Injected(Cat(cache)),
     cross_layer_cache |-> <<>>]

\* forward, lines 649-653: cross layer post reduction aggregation
Recover ==
    /\ pc = "recover"
    /\ IF self.clc /\ i \in Range(self.recovery_layers)
       THEN IF cross_layer_cache = <<>>
            THEN /\ Raise("RuntimeError")
                 /\ UNCHANGED <<x, cross_layer_cache>>
                 /\ curr_num_pool' = Len(x)
            ELSE /\ curr_num_pool' = recover_step(x, cross_layer_cache).curr_num_pool
                 /\ x' = recover_step(x, cross_layer_cache).x
                 /\ cross_layer_cache' = recover_step(x, cross_layer_cache).cross_layer_cache
                 /\ pc' = "accum"
                 /\ err' = err
       ELSE /\ pc' = "accum"
            /\ UNCHANGED <<err, x, cross_layer_cache, curr_num_pool>>
    /\ UNCHANGED <<args, self, i, blk, cls_list, other_vars>>

\* faulty variant: the carrier tokens are not a carrier
cross_layer_carriers_gap_only(slf, xs, num_pool, stage) ==
    IF slf.clc_include_gap
    THEN LET feats_to_pool == IF slf.clc_pool_cls THEN Slice(xs, 0, num_pool)
                                                  ELSE Slice(xs, 1, num_pool)
         IN  <<[pooled |-> feats_to_pool]>>
    ELSE <<>>

\* lines 659-669: the carriers of this stage, a list of token sequences
cross_layer_carriers_of(slf, xs, num_pool, stage) ==
    (IF slf.clc_include_gap
     THEN LET feats_to_pool == IF slf.clc_pool_cls THEN Slice(xs, 0, num_pool)
                                                   ELSE Slice(xs, 1, num_pool)
          IN  <<[pooled |-> feats_to_pool]>>
     ELSE <<>>)
    \o (IF slf.has_clr THEN <<[taken |-> LastN(xs, slf.num_clr)]>> ELSE <<>>)

\* the token sequence of one carrier
carrier_tokens(c, stage) ==
    IF "pooled" \in DOMAIN c
    THEN <<Token("gap", stage, mean_of(c.pooled))>>
    ELSE c.taken

\* faulty variant: the stage of the final recovery accumulates too
accumulates_at_le(slf, stage) ==
    stage <= slf.recovery_layers[Len(slf.recovery_layers)]

\* line 656: i < self.recovery_layers[-1], on a non-empty recovery_layers
accumulates_at(slf, stage) ==
    stage < slf.recovery_layers[Len(slf.recovery_layers)]

\* forward, lines 656-672: add the carriers of this stage to the cache
Accumulate ==
    /\ pc = "accum"
    /\ IF ~self.clc
       THEN /\ pc' = "snap"
            /\ UNCHANGED <<err, cross_layer_cache>>
       ELSE IF self.recovery_layers = <<>>
       THEN /\ Raise("IndexError")
            /\ UNCHANGED cross_layer_cache
       ELSE IF accumulates_at(self, i)
       THEN LET carriers == cross_layer_carriers_of(self, x, curr_num_pool, i)
            IN  IF \E k \in DOMAIN carriers :
                      "pooled" \in DOMAIN carriers[k] /\ carriers[k].pooled = <<>>
                THEN /\ Raise("EinopsError")
                     /\ UNCHANGED cross_layer_cache
                ELSE IF carriers = <<>>
                THEN /\ Raise("RuntimeError")
                     /\ UNCHANGED cross_layer_cache
                ELSE /\ cross_layer_cache' =
                            Append(cross_layer_cache,
                                   Cat([k \in DOMAIN carriers |->
                                           carrier_tokens(carriers[k], i)]))
                     /\ pc' = "snap"
                     /\ err' = err
       ELSE /\ pc' = "snap"
            /\ UNCHANGED <<err, cross_layer_cache>>
    /\ UNCHANGED <<args, self, i, x, blk, curr_num_pool, cls_list, other_vars>>

\* forward, lines 675-676, and the advance of the loop of line 637
Snapshot ==
    /\ pc = "snap"
    /\ cls_list' = IF cls_list.some
                      /\ (i \in Range(self.reduction_loc) \/ i = self.depth - 1)
                   THEN Some(Append(cls_list.v, x[1]))
                   ELSE cls_list
    /\ IF i + 1 < self.depth
       THEN i' = i + 1 /\ pc' = "block"
       ELSE i' = i /\ pc' = "head"
    /\ UNCHANGED <<args, self, err, x, blk, cross_layer_cache, curr_num_pool,
                   other_vars>>

\* lines 686-687: torch.stack(cls_list, dim=-1) has one column per snapshot;
\* the head's first layer over the columns is Conv1d(.., inter_feats,
\* inter_feats, ..) or Linear(inter_feats, 1) (lines 473, 481), followed by
\* Rearrange('b c 1 -> b c'): a stack of another width raises
ifa_head_err(slf, snapshots) ==
    IF Len(snapshots) = slf.inter_feats THEN "" ELSE "RuntimeError"

\* forward, lines 682-699: the norm and the head
Forward_head ==
    /\ pc = "head"
    /\ IF self.ifa_head /\ ifa_head_err(self, cls_list.v) # ""
       THEN Raise(ifa_head_err(self, cls_list.v))
       ELSE pc' = "done" /\ err' = err
    /\ UNCHANGED <<args, self, pass_vars, other_vars>>

Next ==
    \/ EViT_init
    \/ AddClr
    \/ ResetClassifier
    \/ Forward_begin
    \/ Block_attn_reduce
    \/ Block_mlp_return
    \/ Recover
    \/ Accumulate
    \/ Snapshot
    \/ Forward_head

Spec == Init /\ [][Next]_vars

(***************************************************************************)
(* SpecCfg: the constructor on schedules it must judge, followed by the    *)
(* pass on the models it returns.  reduction_loc has 0 to 2 entries, in    *)
(* and out of the index range of a list of depth elements; keep_rate has   *)
(* 0 to 3 entries, in and out of (0, 1].                                   *)
(***************************************************************************)
CfgLocValues == {-(Depth + 1), -1, 1, Depth - 1, Depth}

CfgLocSeqs ==
    {<<>>} \cup {<<a>> : a \in CfgLocValues}
           \cup {<<a, b>> : a, b \in CfgLocValues}

CfgRates == {<<0, 1>>, <<1, 2>>, <<1, 1>>, <<3, 2>>}

CfgRateSeqs ==
    {<<>>} \cup {<<r>> : r \in CfgRates}
           \cup {<<r, q>> : r, q \in CfgRates}
           \cup {<<<<1, 2>>, <<1, 2>>, <<1, 2>>>>}

CfgCacheModes ==
    {[clc |-> FALSE, clc_include_gap |-> FALSE, num_clr |-> 0, add_clr |-> 0,
      clc_recover_at_last |-> FALSE],
     [clc |-> TRUE, clc_include_gap |-> TRUE, num_clr |-> 1, add_clr |-> 1,
      clc_recover_at_last |-> FALSE]}

CfgArgsSet ==
    {a \in
     {[depth |-> Depth, reduction_loc |-> loc, keep_rate |-> kr,
      reg_tokens |-> 0, num_patches |-> NumPatches, num_heads |-> 1,
      clc |-> m.clc, clc_include_gap |-> m.clc_include_gap,
      clc_pool_cls |-> FALSE, clc_pool_clr |-> FALSE,
      clc_recover_at_last |-> m.clc_recover_at_last,
      num_clr |-> m.num_clr, add_clr |-> m.add_clr, ifa_head |-> ifa] :
        loc \in CfgLocSeqs, kr \in CfgRateSeqs,
        m \in CfgCacheModes, ifa \in BOOLEAN} : a.ifa_head => ~a.clc}

InitCfg ==
    /\ args \in CfgArgsSet
    /\ self = NoSelf
    /\ pc = "new"
    /\ err = ""
    /\ i = 0
    /\ x = <<>>
    /\ blk = NoBlk
    /\ cross_layer_cache = <<>>
    /\ curr_num_pool = 0
    /\ cls_list = None
    /\ fn_in = <<>>
    /\ fn_out = <<>>
    /\ shape = 0
    /\ calls = <<>>

SpecCfg == InitCfg /\ [][Next]_vars

(***************************************************************************)
(* SpecFn: complement_idx applied directly.  The inputs are all batches of *)
(* one or two rows of n_idx indices below dim, rows with repeated indices  *)
(* included, for 1 <= dim <= MaxDim and 0 <= n_idx <= dim (torch.scatter   *)
(* rejects an index longer than its source).                               *)
(***************************************************************************)
FnInputs(d, K, B) == {[idx |-> b, dim |-> d] : b \in [1..B -> [1..K -> 0..(d - 1)]]}

InitFn ==
    /\ \E d \in 1..MaxDim, K \in 0..MaxDim, B \in {1, 2} :
          /\ K <= d
          /\ fn_in \in FnInputs(d, K, B)
    /\ fn_out = None
    /\ pc = "fn_call"
    /\ args = <<>>
    /\ self = NoSelf
    /\ err = ""
    /\ i = 0
    /\ x = <<>>
    /\ blk = NoBlk
    /\ cross_layer_cache = <<>>
    /\ curr_num_pool = 0
    /\ cls_list = None
    /\ shape = 0
    /\ calls = <<>>

Call_complement_idx ==
    /\ pc = "fn_call"
    /\ fn_out' = Some(complement_idx(fn_in.idx, fn_in.dim))
    /\ pc' = "fn_done"
    /\ UNCHANGED <<args, self, err, pass_vars, fn_in, shape, calls>>

\* complement_idx applied to its own result, with the same dim
Call_complement_idx_again ==
    /\ pc = "fn_done"
    /\ fn_out' = Some(complement_idx(fn_out.v, fn_in.dim))
    /\ pc' = "fn_twice"
    /\ UNCHANGED <<args, self, err, pass_vars, fn_in, shape, calls>>

NextFn ==
    \/ Call_complement_idx
    \/ Call_complement_idx_again

SpecFn == InitFn /\ [][NextFn]_vars

(***************************************************************************)
(* SpecShape: the pass at the level of tensor shapes, for sequences too    *)
(* long to run token by token: only x.shape[1] is followed through the     *)
(* blocks (caching disabled).                                              *)
(***************************************************************************)
\* faulty variant: the fused token is not appended
Block_out_len_no_fused(keep_rate, N) ==
    IF keep_rate_lt_1(keep_rate) /\ left_tokens_of(keep_rate, N) # N - 1
    THEN [n |-> 1 + left_tokens_of(keep_rate, N), err |-> ""]
    ELSE [n |-> N, err |-> ""]

\* Block.forward on shapes: x.shape[1] of the sequence it returns, and the
\* error it raises
Block_out_len(keep_rate, N) ==
    IF keep_rate_lt_1(keep_rate)
    THEN IF left_tokens_of(keep_rate, N) # N - 1
         THEN IF left_tokens_of(keep_rate, N) >= 1
              THEN [n |-> 1 + left_tokens_of(keep_rate, N) + 1, err |-> ""]
              ELSE [n |-> N, err |-> "AssertionError"]
         ELSE [n |-> N, err |-> "UnboundLocalError"]
    ELSE [n |-> N, err |-> ""]

ShapeArgs(loc, kr, np) ==
    [depth |-> 12, reduction_loc |-> loc, keep_rate |-> kr,
     reg_tokens |-> 0, num_patches |-> np, num_heads |-> 12,
     clc |-> FALSE, clc_include_gap |-> FALSE,
     clc_pool_cls |-> FALSE, clc_pool_clr |-> FALSE,
     clc_recover_at_last |-> FALSE,
     num_clr |-> 0, add_clr |-> 0, ifa_head |-> FALSE]

ShapeArgsSet ==
    {ShapeArgs(loc, kr, np) :
        loc \in {<<3, 6, 9>>, <<9>>, <<4, 8>>},
        kr \in {<<r>> : r \in {<<9, 10>>, <<7, 10>>, <<1, 2>>}},
        np \in {196, 576}}
    \cup {ShapeArgs(<<3, 6, 9>>, <<<<9, 10>>, <<9, 10>>, <<9, 10>>>>, 196)}

InitShape ==
    /\ args \in ShapeArgsSet
    /\ self = NoSelf
    /\ pc = "new"
    /\ err = ""
    /\ i = 0
    /\ x = <<>>
    /\ blk = NoBlk
    /\ cross_layer_cache = <<>>
    /\ curr_num_pool = 0
    /\ cls_list = None
    /\ fn_in = <<>>
    /\ fn_out = <<>>
    /\ shape = 0
    /\ calls = <<>>

\* forward, lines 620-623: the shape of the embedded sequence
Shape_begin ==
    /\ pc = "ready"
    /\ shape' = 1 + self.num_reg_tokens + self.num_patches
    /\ i' = 0
    /\ pc' = "block"
    /\ UNCHANGED <<args, self, err, x, blk, cross_layer_cache, curr_num_pool,
                   cls_list, fn_in, fn_out, calls>>

\* forward, lines 637-638: one block
Shape_block ==
    /\ pc = "block"
    /\ LET r == Block_out_len(self.blocks[i + 1], shape)
       IN  IF r.err # ""
           THEN Raise(r.err) /\ UNCHANGED <<shape, i>>
           ELSE /\ shape' = r.n
                /\ err' = err
                /\ IF i + 1 < self.depth
                   THEN i' = i + 1 /\ pc' = "block"
                   ELSE i' = i /\ pc' = "head"
    /\ UNCHANGED <<args, self, x, blk, cross_layer_cache, curr_num_pool,
                   cls_list, fn_in, fn_out, calls>>

NextShape ==
    \/ EViT_init
    \/ Shape_begin
    \/ Shape_block
    \/ Forward_head

SpecShape == InitShape /\ [][NextShape]_vars

(***************************************************************************)
(* SpecKeep: the keep count and the outcome of Block.forward on shapes,    *)
(* for every keep rate n/d in (0, 1] with d <= MaxRateDen (the rates a     *)
(* constructed block can hold, line 190) and every sequence length up to   *)
(* MaxSeqLen.                                                              *)
(***************************************************************************)
MaxRateDen == 6
MaxSeqLen == 8

InitKeep ==
    /\ \E d \in 1..MaxRateDen, n \in 1..MaxRateDen, N \in 1..MaxSeqLen :
          /\ n <= d
          /\ fn_in = [keep_rate |-> Rat(n, d), N |-> N]
    /\ fn_out = None
    /\ pc = "len_call"
    /\ args = <<>>
    /\ self = NoSelf
    /\ err = ""
    /\ i = 0
    /\ x = <<>>
    /\ blk = NoBlk
    /\ cross_layer_cache = <<>>
    /\ curr_num_pool = 0
    /\ cls_list = None
    /\ shape = 0
    /\ calls = <<>>

\* Block.forward on a sequence of fn_in.N tokens: the keep count of line
\* 206 (when line 205 lets it be computed) and the outcome
Call_block_len ==
    /\ pc = "len_call"
    /\ fn_out' = [left |-> IF keep_rate_lt_1(fn_in.keep_rate)
                           THEN Some(left_tokens_of(fn_in.keep_rate, fn_in.N))
                           ELSE None,
                  out  |-> Block_out_len(fn_in.keep_rate, fn_in.N)]
    /\ pc' = "len_done"
    /\ UNCHANGED <<args, self, err, pass_vars, fn_in, shape, calls>>

NextKeep == Call_block_len

SpecKeep == InitKeep /\ [][NextKeep]_vars

(***************************************************************************)
(* SpecTwo: two calls of forward on the same model, interleaved stage by   *)
(* stage.  calls[c] holds the locals of call c: its position, the loop     *)
(* index, x, cross_layer_cache and curr_num_pool, and the exception that   *)
(* ended it.  A call that has returned or raised may be followed by a new  *)
(* call in its place; the values the ended call left behind stay in        *)
(* calls[c] until then.                                                    *)
(***************************************************************************)
Calls == {"a", "b"}

NoCall == [pc |-> "idle", i |-> 0, x |-> <<>>, cross_layer_cache |-> <<>>,
           curr_num_pool |-> 0, err |-> ""]

TwoArgsSet ==
    {[depth |-> Depth, reduction_loc |-> loc, keep_rate |-> <<r>>,
      reg_tokens |-> 0, num_patches |-> NumPatches, num_heads |-> 1,
      clc |-> TRUE, clc_include_gap |-> TRUE,
      clc_pool_cls |-> FALSE, clc_pool_clr |-> FALSE,
      clc_recover_at_last |-> FALSE,
      num_clr |-> 0, add_clr |-> 0, ifa_head |-> FALSE] :
        loc \in {<<1>>, <<2>>, <<1, 2>>}, r \in Rates}

InitTwo ==
    /\ args \in TwoArgsSet
    /\ self = NoSelf
    /\ pc = "new"
    /\ err = ""
    /\ i = 0
    /\ x = <<>>
    /\ blk = NoBlk
    /\ cross_layer_cache = <<>>
    /\ curr_num_pool = 0
    /\ cls_list = None
    /\ fn_in = <<>>
    /\ fn_out = <<>>
    /\ shape = 0
    /\ calls = [c \in Calls |-> NoCall]

\* faulty variant: the buffer of the call before is taken over
forward_cache_kept(old) == old.cross_layer_cache

\* line 631: the buffer of a call is a new list; old holds what the call
\* before it left behind
forward_cache_new(old) == <<>>

\* forward, lines 620-635: the locals of a call that starts
forward_locals(slf, old) ==
    [pc                |-> "run",
     i                 |-> 0,
     x                 |-> pos_embed(slf),
     cross_layer_cache |-> forward_cache_new(old),
     curr_num_pool     |-> IF slf.has_clr /\ ~slf.clc_pool_clr
                           THEN Len(pos_embed(slf)) - slf.num_clr
                           ELSE Len(pos_embed(slf)),
     err               |-> ""]

\* lines 656-672 on the locals l, the block and the recovery done
forward_accumulate(slf, l) ==
    IF ~slf.clc THEN l
    ELSE IF slf.recovery_layers = <<>> THEN [l EXCEPT !.err = "IndexError"]
    ELSE IF accumulates_at(slf, l.i)
    THEN LET carriers == cross_layer_carriers_of(slf, l.x, l.curr_num_pool, l.i)
         IN  IF \E k \in DOMAIN carriers :
                   "pooled" \in DOMAIN carriers[k] /\ carriers[k].pooled = <<>>
             THEN [l EXCEPT !.err = "EinopsError"]
             ELSE IF carriers = <<>> THEN [l EXCEPT !.err = "RuntimeError"]
             ELSE [l EXCEPT !.cross_layer_cache =
                      Append(@, Cat([k \in DOMAIN carriers |->
                                        carrier_tokens(carriers[k], l.i)]))]
    ELSE l

\* lines 649-653 on the locals l, the block done
forward_recover(slf, l) ==
    IF slf.clc /\ l.i \in Range(slf.recovery_layers)
    THEN IF l.cross_layer_cache = <<>>
         THEN [l EXCEPT !.curr_num_pool = Len(l.x), !.err = "RuntimeError"]
         ELSE LET r == recover_step(l.x, l.cross_layer_cache)
              IN  [l EXCEPT !.curr_num_pool = r.curr_num_pool, !.x = r.x,
                            !.cross_layer_cache = r.cross_layer_cache]
    ELSE l

\* the end of one iteration of the loop of line 637
forward_advance(slf, l) ==
    IF l.err # "" THEN [l EXCEPT !.pc = "error"]
    ELSE IF l.i + 1 < slf.depth THEN [l EXCEPT !.i = l.i + 1]
    ELSE [l EXCEPT !.pc = "done"]

\* one iteration of the loop of forward (lines 637-676) on the locals l:
\* the locals it may leave
forward_stage(slf, l) ==
    LET after(b0) ==
            IF b0.err # "" THEN [l EXCEPT !.err = b0.err]
            ELSE LET b == Block_mlp(b0)
                 IN  IF b.err # "" THEN [l EXCEPT !.err = b.err]
                     ELSE LET r == forward_recover(slf, [l EXCEPT !.x = b.x])
                          IN  IF r.err # "" THEN r ELSE forward_accumulate(slf, r)
    IN  {forward_advance(slf, after(b0)) :
            b0 \in Block_reduce(slf.blocks[l.i + 1], slf.num_heads, l.x, l.i)}

\* a call of forward starts
Call_begin ==
    /\ pc = "ready"
    /\ \E c \in Calls :
          /\ calls[c].pc \in {"idle", "done", "error"}
          /\ calls' = [calls EXCEPT ![c] = forward_locals(self, calls[c])]
    /\ UNCHANGED <<args, self, pc, err, pass_vars, fn_in, fn_out, shape>>

\* a call of forward runs one stage
Call_stage ==
    /\ pc = "ready"
    /\ \E c \in Calls :
          /\ calls[c].pc = "run"
          /\ \E l \in forward_stage(self, calls[c]) :
                calls' = [calls EXCEPT ![c] = l]
    /\ UNCHANGED <<args, self, pc, err, pass_vars, fn_in, fn_out, shape>>

NextTwo ==
    \/ EViT_init
    \/ Call_begin
    \/ Call_stage

SpecTwo == InitTwo /\ [][NextTwo]_vars

(***************************************************************************)
(* Properties.                                                             *)
(***************************************************************************)
\* ceil(r * k) for a rational r >= 0 and k >= 0, by its definition: the
\* least integer m with m >= r * k
ExactCeil(r, k) ==
    CHOOSE m \in 0..(r[1] * k + 1) :
        /\ m * r[2] >= r[1] * k
        /\ \A m2 \in 0..(r[1] * k + 1) : m2 * r[2] >= r[1] * k => m <= m2

\* the state after line 227 of Block.forward
AfterReduce == pc = "mlp"
\* ... when the reduction has fired
Reduced == pc = "mlp" /\ blk.index.some
\* the keep rate of the current stage
StageRate == self.blocks[i + 1]
\* the stage reduces: keep_rate < 1 and left < N - 1
Reducing(N) ==
    /\ StageRate[1] < StageRate[2]
    /\ ExactCeil(StageRate, N - 1) < N - 1

\* the relevance score of non-class token p (0-based): the mean over the
\* heads of the attention weight from position 0 to position p + 1
Score(p) ==
    Rat(RatSum([h \in DOMAIN blk.attn |-> blk.attn[h][1][p + 2]])[1],
        RatSum([h \in DOMAIN blk.attn |-> blk.attn[h][1][p + 2]])[2] * Len(blk.attn))

RECURSIVE WeightedSum(_)
WeightedSum(D) ==
    IF D = {} THEN RatInt(0)
    ELSE LET p == CHOOSE q \in D : TRUE
         IN  RatAdd(RatMul(blk.x_attn[p + 2].val, Score(p)), WeightedSum(D \ {p}))

\* C1: at every reducing stage the kept and the discarded indices are
\* duplicate-free, disjoint, together exactly {0..N-2}, and |kept| = left
C1_KeptDiscardedPartition ==
    AfterReduce =>
        LET N == Len(blk.x_attn)
        IN  Reducing(N) =>
              /\ blk.index.some
              /\ NoDup(blk.index.v)
              /\ NoDup(blk.compl)
              /\ Range(blk.index.v) \cap Range(blk.compl) = {}
              /\ Range(blk.index.v) \cup Range(blk.compl) = 0..(N - 2)
              /\ Len(blk.index.v) + Len(blk.compl) = N - 1
              /\ Len(blk.index.v) = ExactCeil(StageRate, N - 1)

C1_Witness ==
    /\ Reduced
    /\ Len(blk.compl) >= 2
    /\ Len(blk.index.v) >= 2
    /\ 0 \in Range(blk.index.v)

C4_NoReductionAtRateOne ==
    (pc \in {"mlp", "recover"} /\ StageRate = RatInt(1)) =>
        /\ blk.bound
        /\ blk.index = None
        /\ blk.cls_attn = <<>>
        /\ blk.idx = <<>> /\ blk.compl = <<>>
        /\ Ids(blk.x) = blk.x_in
        /\ \A p \in DOMAIN blk.x : blk.x[p].kind = "fused" => blk.x[p].k # i
        /\ pc = "recover" =>
              /\ Ids(x) = blk.x_in
              /\ blk.n_tokens = Len(blk.x_in) - 1
              /\ blk.ret_idx = None
              /\ blk.ret_compl = None

C4_Witness ==
    /\ pc = "recover"
    /\ StageRate = RatInt(1)
    /\ \E p \in DOMAIN x : x[p].kind = "fused"
    /\ blk.ret_idx = None

\* the configuration of C3
C3Args == ShapeArgs(<<3, 6, 9>>, <<<<9, 10>>, <<9, 10>>, <<9, 10>>>>, 196)

\* the number of stages the pass has completed
StagesDone == IF pc = "block" THEN i ELSE self.depth

\* the length C3 gives for the sequence leaving stage s (s = -1: entering
\* stage 0)
C3Length(s) ==
    IF s <= 2 THEN 197 ELSE IF s <= 5 THEN 179 ELSE IF s <= 8 THEN 163 ELSE 148

\* C3: depth 12, reduction_loc [3,6,9], keep_rate [0.9,0.9,0.9], one prefix
\* token, no caching, N = 197: the length leaving the stages is 197 (0-2),
\* 179 (3-5), 163 (6-8), 148 (9-11), and the pass completes
C3_LengthTrajectory ==
    args = C3Args =>
        /\ pc # "error"
        /\ pc \in {"block", "head", "done"} => shape = C3Length(StagesDone - 1)

C3_Witness ==
    /\ args = C3Args
    /\ pc = "done"
    /\ shape = 148

\* the shape-level pass agrees with the pass on tokens: a block returns a
\* sequence of the length Block_out_len gives, or raises the error it gives
ShapeAgrees ==
    /\ pc = "recover" =>
          /\ Block_out_len(StageRate, Len(blk.x_in)).err = ""
          /\ Len(x) = Block_out_len(StageRate, Len(blk.x_in)).n
    /\ (pc = "error" /\ blk.err # "") =>
          blk.err = Block_out_len(StageRate, Len(blk.x_in)).err

\* C5: for every row of distinct indices below dim, complement_idx returns
\* the indices of {0..dim-1} missing from the row, ascending, dim - |row| of
\* them, whether or not the row holds index 0
C5_ComplementAscending ==
    pc = "fn_done" =>
        \A b \in DOMAIN fn_in.idx :
            NoDup(fn_in.idx[b]) =>
                LET out == fn_out.v[b]
                IN  /\ Len(out) = fn_in.dim - Len(fn_in.idx[b])
                    /\ Range(out) = (0..(fn_in.dim - 1)) \ Range(fn_in.idx[b])
                    /\ \A j, k \in DOMAIN out : j < k => out[j] < out[k]

C5_Witness ==
    /\ pc = "fn_done"
    /\ Len(fn_in.idx) = 2
    /\ NoDup(fn_in.idx[1]) /\ NoDup(fn_in.idx[2])
    /\ 0 \in Range(fn_in.idx[1])
    /\ 0 \notin Range(fn_in.idx[2])
    /\ Len(fn_in.idx[2]) = 2
    /\ fn_in.idx[2][1] > fn_in.idx[2][2]
    /\ Len(fn_out.v[1]) = 1 /\ Len(fn_out.v[2]) = 1

\* C6: a reducing stage produces exactly one fused token, the sum over the
\* discarded indices of token times score, the score being the head-averaged
\* attention weight from position 0, not renormalised
C6_FusedToken ==
    /\ extra_token_val(<<Token("patch", 1, RatInt(3)), Token("patch", 2, RatInt(5)),
                          Token("patch", 3, RatInt(7))>>,
                        <<Rat(1, 10), Rat(1, 20), Rat(1, 50)>>) = Rat(69, 100)
    /\ Reduced =>
          LET N == Len(blk.x_attn)
              discarded == (0..(N - 2)) \ Range(blk.index.v)
          IN  /\ Cardinality({p \in DOMAIN blk.x :
                                 blk.x[p].kind = "fused" /\ blk.x[p].k = i}) = 1
              /\ blk.x[Len(blk.x)].kind = "fused" /\ blk.x[Len(blk.x)].k = i
              /\ blk.x[Len(blk.x)].val = WeightedSum(discarded)
              /\ \A p \in 0..(N - 2) : blk.cls_attn[p + 1] = Score(p)

C6_Witness ==
    /\ Reduced
    /\ Len(blk.compl) >= 2
    /\ Len(blk.attn) = 2
    /\ \E p \in Range(blk.compl) : blk.attn[1][1][p + 2] # blk.attn[2][1][p + 2]
    /\ blk.x[Len(blk.x)].val[2] > 1
    /\ RatLess(RatSum([j \in DOMAIN blk.compl |-> Score(blk.compl[j])]), RatInt(1))

\* C7: the reduced sequence is the position-0 token of the input, then the
\* kept tokens in the order of kept_idx (descending score), then the fused
\* token
C7_Reassembly ==
    Reduced =>
        LET kept == blk.index.v
            left == Len(kept)
        IN  /\ Len(blk.x) = left + 2
            /\ blk.x[1] = blk.x_attn[1]
            /\ \A j \in 1..left : blk.x[j + 1] = blk.x_attn[kept[j] + 2]
            /\ blk.x[left + 2].kind = "fused" /\ blk.x[left + 2].k = i
            /\ \A j, k \in 1..left : j < k => RatLeq(Score(kept[k]), Score(kept[j]))
            /\ \A j \in 1..left : \A p \in Range(blk.compl) :
                    RatLeq(Score(p), Score(kept[j]))

C7_Witness ==
    /\ Reduced
    /\ Len(blk.index.v) >= 2
    /\ blk.index.v[1] > blk.index.v[2]
    /\ blk.x[2] = blk.x_attn[blk.index.v[1] + 2]

\* the positions of forward at which x is the sequence of the pass
PassPcs == {"block", "mlp", "recover", "accum", "snap", "head", "done"}

\* prefix token q (1-based position) as _pos_embed places it
PrefixId(q) == IF q = 1 THEN <<"cls", 0, FALSE>> ELSE <<"reg", q - 1, FALSE>>

\* C8 (as claimed): after a reducing stage N' = num_prefix + left + 1 for
\* every number of prefix tokens
C8_LengthWithPrefix ==
    Reduced =>
        Len(blk.x) = self.num_prefix_tokens
                       + ExactCeil(StageRate, Len(blk.x_attn) - 1) + 1

\* C9 (as claimed): prefix tokens are never candidates for discard and stay
\* in the first num_prefix positions, in their original order, after every
\* stage
C9_PrefixStaysAtHead ==
    /\ Reduced => \A p \in Range(blk.compl) : p + 1 >= self.num_prefix_tokens
    /\ pc \in PassPcs =>
          \A q \in 1..self.num_prefix_tokens :
              q <= Len(x) /\ TokId(x[q]) = PrefixId(q)

\* the last element of recovery_layers
LastRecovery == self.recovery_layers[Len(self.recovery_layers)]

\* C10 (as claimed): with caching enabled the buffer is empty at the end of
\* every stage whose index is in recovery_layers
C10_EmptyAfterRecoveryStage ==
    (pc \in {"block", "head", "done"} /\ self.clc /\ StagesDone >= 1) =>
        ((StagesDone - 1) \in Range(self.recovery_layers) =>
            cross_layer_cache = <<>>)

\* C10 (amended): with caching enabled the buffer is empty right after the
\* recovery step of every stage in recovery_layers; at the end of such a
\* stage it holds the one entry of the stage's own accumulate step when the
\* stage index is below recovery_layers[-1] and is empty otherwise; and no
\* step but the recovery step of a recovery stage lowers its entry count
C10_CacheLifecycle ==
    [][(pc \in PassPcs /\ self.clc) =>
         /\ (pc = "recover" /\ i \in Range(self.recovery_layers) /\ pc' = "accum")
               => cross_layer_cache' = <<>>
         /\ (pc = "snap" /\ i \in Range(self.recovery_layers))
               => Len(cross_layer_cache') = IF i < LastRecovery THEN 1 ELSE 0
         /\ Len(cross_layer_cache') < Len(cross_layer_cache)
               => (pc = "recover" /\ i \in Range(self.recovery_layers))]_vars

\* a stage strictly between two recovery stages has ended with two entries
\* buffered, after an earlier recovery put cached tokens into the sequence
C10_Witness ==
    /\ pc = "block"
    /\ self.clc
    /\ i >= 2
    /\ (i - 2) \in Range(self.recovery_layers)
    /\ (i - 1) \notin Range(self.recovery_layers)
    /\ i \in Range(self.recovery_layers)
    /\ Len(cross_layer_cache) = 2
    /\ \E p \in DOMAIN x : x[p].inj

\* C11: with caching enabled, the accumulate step of a stage appends exactly
\* one carrier entry when the stage index is below the last element of
\* recovery_layers and leaves the buffer alone when it is at or after it;
\* no other step of the pass makes the buffer longer
C11_OneCarrierPerStage ==
    [][(pc \in PassPcs /\ self.clc) =>
         /\ (pc = "accum" /\ pc' = "snap") =>
               IF i < LastRecovery
               THEN /\ Len(cross_layer_cache') = Len(cross_layer_cache) + 1
                    /\ SubSeq(cross_layer_cache', 1, Len(cross_layer_cache))
                          = cross_layer_cache
               ELSE cross_layer_cache' = cross_layer_cache
         /\ Len(cross_layer_cache') > Len(cross_layer_cache) => pc = "accum"]_vars

\* the stage of the final recovery has ended without an append, after the
\* entries of the stages before it went into the sequence
C11_Witness ==
    /\ pc = "snap"
    /\ self.clc
    /\ i = LastRecovery
    /\ i >= 2
    /\ Range(self.recovery_layers) = {i}
    /\ cross_layer_cache = <<>>
    /\ Cardinality({p \in DOMAIN x : x[p].inj}) = i

\* the number of tokens of the buffer entries before entry k
RECURSIVE EntryOffset(_, _)
EntryOffset(cache, k) ==
    IF k <= 1 THEN 0 ELSE EntryOffset(cache, k - 1) + Len(cache[k - 1])

\* C12: at a stage in recovery_layers (caching enabled) the recovery step
\* keeps the current sequence as it is, puts after it the tokens of every
\* buffered entry, entry after entry in accumulation order, nothing else,
\* and leaves the buffer empty for the accumulate step that follows
C12_RecoveryAppendsInOrder ==
    [][(pc = "recover" /\ self.clc /\ i \in Range(self.recovery_layers)
          /\ pc' = "accum") =>
         /\ SubSeq(x', 1, Len(x)) = x
         /\ Len(x') = Len(x) + EntryOffset(cross_layer_cache,
                                           Len(cross_layer_cache) + 1)
         /\ \A k \in DOMAIN cross_layer_cache :
               \A j \in DOMAIN cross_layer_cache[k] :
                   x'[Len(x) + EntryOffset(cross_layer_cache, k) + j]
                     = [cross_layer_cache[k][j] EXCEPT !.inj = TRUE]
         /\ cross_layer_cache' = <<>>]_vars

\* a recovery has put two entries of different content into the sequence
C12_Witness ==
    /\ pc = "accum"
    /\ self.clc
    /\ i \in Range(self.recovery_layers)
    /\ cross_layer_cache = <<>>
    /\ \E p \in DOMAIN x :
          /\ p < Len(x)
          /\ x[p].inj /\ x[p + 1].inj
          /\ x[p].kind = "gap" /\ x[p + 1].kind = "gap"
          /\ x[p].k < x[p + 1].k
          /\ x[p].val # x[p + 1].val

\* construction has ended with an exception / with a model
ConstructionFailed == pc = "error" /\ self = NoSelf
Constructed == pc # "new" /\ self # NoSelf

\* the reduction schedule of a alone passes the checks of the constructor:
\* lengths agree (after the broadcast of a single rate), every location
\* indexes the per-stage list, every per-stage rate is in (0, 1]
ScheduleAccepted(a) ==
    /\ (Len(a.keep_rate) = 1 \/ Len(a.keep_rate) = Len(a.reduction_loc))
    /\ \A k \in DOMAIN a.reduction_loc :
          -a.depth <= a.reduction_loc[k] /\ a.reduction_loc[k] < a.depth
    /\ \A s \in 0..(a.depth - 1) :
          \A k \in DOMAIN a.reduction_loc :
              (/\ a.reduction_loc[k] \in {s, s - a.depth}
               /\ \A m \in DOMAIN a.reduction_loc :
                     m > k => a.reduction_loc[m] \notin {s, s - a.depth})
              => LET r == IF Len(a.keep_rate) = 1 THEN a.keep_rate[1]
                                                  ELSE a.keep_rate[k]
                 IN  r[1] > 0 /\ r[1] <= r[2]

\* C13: with clc set, num_clr = 0 and clc_include_gap unset the constructor
\* raises; with clc set and num_clr > 0 or clc_include_gap set, a schedule
\* that passes the schedule checks yields a model (the cache check passes)
C13_CachePrecondition ==
    (pc # "new" /\ args.clc) =>
        /\ (args.num_clr = 0 /\ ~args.clc_include_gap) => ConstructionFailed
        /\ ((args.num_clr > 0 \/ args.clc_include_gap) /\ ScheduleAccepted(args))
              => Constructed

\* the constructor has raised on a cache without carriers whose schedule is
\* accepted
C13_Witness ==
    /\ ConstructionFailed
    /\ err = "AssertionError"
    /\ args.clc
    /\ args.num_clr = 0
    /\ ~args.clc_include_gap
    /\ ScheduleAccepted(args)

\* C19 (as claimed): a stage with keep_rate < 1 whose keep count equals
\* N - 1 returns without error, the sequence unreduced, both indices None
C19_NothingToDiscard ==
    (/\ pc \in {"recover", "error"}
     /\ blk # NoBlk
     /\ keep_rate_lt_1(StageRate)
     /\ blk.left_tokens = Len(blk.x_attn) - 1) =>
        /\ blk.err = ""
        /\ pc = "recover"
        /\ Ids(x) = blk.x_in
        /\ ~blk.ret_idx.some
        /\ ~blk.ret_compl.some

\* C20 (as claimed): with caching enabled the buffer holds an entry whenever
\* the recovery step of a recovery stage is reached
C20_RecoveryBufferNonEmpty ==
    (pc = "recover" /\ self.clc /\ i \in Range(self.recovery_layers)) =>
        cross_layer_cache # <<>>

\* the rate the schedule of a gives location k
RateAt(a, k) == IF Len(a.keep_rate) = 1 THEN a.keep_rate[1] ELSE a.keep_rate[k]

\* C14: the constructor raises when keep_rate has neither one entry nor as
\* many entries as reduction_loc; a keep_rate of one entry is stored once
\* per location and is the rate of every stage reduction_loc names, and it
\* never fails the length check: construction succeeds when the rest of
\* the configuration is accepted
C14_RateListLength ==
    pc # "new" =>
        /\ (Len(args.keep_rate) # Len(args.reduction_loc)
               /\ Len(args.keep_rate) # 1) => ConstructionFailed
        /\ (Len(args.keep_rate) = 1 /\ Constructed) =>
              /\ self.token_ratio
                    = [k \in 1..Len(args.reduction_loc) |-> args.keep_rate[1]]
              /\ \A k \in DOMAIN args.reduction_loc :
                    self.blocks[ListPos(args.reduction_loc[k], args.depth)]
                      = args.keep_rate[1]
        /\ (/\ Len(args.keep_rate) = 1
            /\ ScheduleAccepted(args)
            /\ args.clc => (args.num_clr > 0 \/ args.clc_include_gap))
              => Constructed

\* one rate given for two different locations, and the pass has reduced at
\* the second of them
C14_Witness ==
    /\ Constructed
    /\ args.keep_rate = <<<<1, 2>>>>
    /\ Len(args.reduction_loc) = 2
    /\ args.reduction_loc[1] < args.reduction_loc[2]
    /\ pc = "mlp"
    /\ i = args.reduction_loc[2]
    /\ blk.index.some

\* C15 (as claimed): a reduction_loc entry outside 0..depth-1 or a keep_rate
\* entry outside (0, 1] makes construction fail, so the pass never starts
\* on such a configuration
C15_EagerValidation ==
    pc \in PassPcs =>
        /\ \A k \in DOMAIN args.reduction_loc :
              args.reduction_loc[k] \in 0..(args.depth - 1)
        /\ \A k \in DOMAIN args.keep_rate :
              args.keep_rate[k][1] > 0 /\ args.keep_rate[k][1] <= args.keep_rate[k][2]

\* the entries of reduction_loc that name stage s (s counted from 0; an
\* entry s - depth names it from the end of the list)
Naming(a, s) == {k \in DOMAIN a.reduction_loc : a.reduction_loc[k] \in {s, s - a.depth}}

\* C18 (as claimed): the per-stage array has depth entries, holds
\* keep_rate[k] at index reduction_loc[k] for every k and 1.0 at every
\* index that is not an entry of reduction_loc
C18_PerStageRates ==
    Constructed =>
        /\ Len(self.blocks) = args.depth
        /\ \A k \in DOMAIN args.reduction_loc :
              /\ args.reduction_loc[k] \in 0..(args.depth - 1)
              /\ self.blocks[args.reduction_loc[k] + 1] = RateAt(args, k)
        /\ \A s \in 0..(args.depth - 1) :
              s \notin Range(args.reduction_loc) => self.blocks[s + 1] = RatInt(1)

\* C18 (amended): the per-stage array has depth entries; stage s holds the
\* rate of the last entry of reduction_loc that names it (s itself, or
\* s - depth counting from the end) and 1.0 when no entry names it; a
\* reduction fires only at a stage some entry names
C18_PerStageRatesLastWins ==
    Constructed =>
        /\ Len(self.blocks) = args.depth
        /\ \A s \in 0..(args.depth - 1) :
              IF Naming(args, s) = {}
              THEN self.blocks[s + 1] = RatInt(1)
              ELSE \E k \in Naming(args, s) :
                      /\ \A m \in Naming(args, s) : m <= k
                      /\ self.blocks[s + 1] = RateAt(args, k)
        /\ (pc = "mlp" /\ blk.index.some) => Naming(args, i) # {}

\* a stage named twice, with two rates, has reduced at the second rate
C18_Witness ==
    /\ Constructed
    /\ Len(args.reduction_loc) = 2
    /\ args.reduction_loc[1] = args.reduction_loc[2]
    /\ Len(args.keep_rate) = 2
    /\ args.keep_rate[1] # args.keep_rate[2]
    /\ pc = "mlp"
    /\ i = args.reduction_loc[2]
    /\ blk.index.some

\* C16: for rows of distinct indices below dim, complement_idx applied to
\* the result of complement_idx (same dim) returns the indices of the
\* original row, as a set
C16_ComplementInvolution ==
    pc = "fn_twice" =>
        \A b \in DOMAIN fn_in.idx :
            NoDup(fn_in.idx[b]) =>
                /\ Range(fn_out.v[b]) = Range(fn_in.idx[b])
                /\ Len(fn_out.v[b]) = Len(fn_in.idx[b])

\* a row given in descending order, without index 0, has come back in
\* another order
C16_Witness ==
    /\ pc = "fn_twice"
    /\ Len(fn_in.idx) = 1
    /\ fn_in.idx[1] = <<2, 1>>
    /\ fn_in.dim = 3
    /\ fn_out.v[1] = <<1, 2>>

\* C17: every call of forward starts with an empty buffer whatever the
\* calls before it left; a step of one of two interleaved calls leaves the
\* locals of the other call, its buffer among them, as they are; and no
\* step of a call changes reduction_loc, token_ratio or recovery_layers of
\* the model
C17_BufferLocalToCall ==
    [][(pc = "ready" /\ calls # <<>>) =>
         /\ \A c \in Calls :
               (calls[c].pc # "run" /\ calls'[c].pc = "run")
                 => calls'[c].cross_layer_cache = <<>>
         /\ \A c, d \in Calls :
               (c # d /\ calls'[c] # calls[c]) => calls'[d] = calls[d]
         /\ self'.reduction_loc = self.reduction_loc
         /\ self'.token_ratio = self.token_ratio
         /\ self'.recovery_layers = self.recovery_layers]_vars

\* the two calls are in different stages: one has an entry buffered and no
\* recovery behind it, the other has emptied its buffer into its sequence
C17_Witness ==
    /\ pc = "ready"
    /\ calls # <<>>
    /\ calls["a"].pc = "run"
    /\ calls["a"].i = 1
    /\ Len(calls["a"].cross_layer_cache) = 1
    /\ calls["b"].pc = "run"
    /\ calls["b"].i = 3
    /\ calls["b"].cross_layer_cache = <<>>
    /\ \E p \in DOMAIN calls["b"].x : calls["b"].x[p].inj

\* the non-class indices of the current stage scored strictly above / at
\* least as high as index p
ScoredAbove(p) ==
    {q \in 0..(Len(blk.x_attn) - 2) : RatLess(Score(p), Score(q))}
ScoredAtLeast(p) ==
    {q \in (0..(Len(blk.x_attn) - 2)) \ {p} : RatLeq(Score(p), Score(q))}

\* C21 (as claimed): at every reducing stage index 0 of the non-class range
\* is not in kept_idx
C21_IndexZeroNeverKept ==
    Reduced => 0 \notin Range(blk.index.v)

\* C21 (amended): at every reducing stage index 0 of the non-class range is
\* selected like every other index: it is kept when fewer than left other
\* indices score at least as high, discarded when at least left indices
\* score strictly higher, and in both cases it is in exactly one of the
\* kept and the discarded list, the discarded list being the complement of
\* the kept one
C21_IndexZeroSelectedByScore ==
    Reduced =>
        LET left == Len(blk.index.v)
        IN  /\ (0 \in Range(blk.index.v)) # (0 \in Range(blk.compl))
            /\ Cardinality(ScoredAtLeast(0)) < left => 0 \in Range(blk.index.v)
            /\ Cardinality(ScoredAbove(0)) >= left => 0 \in Range(blk.compl)
            /\ Range(blk.compl)
                  = (0..(Len(blk.x_attn) - 2)) \ Range(blk.index.v)

\* index 0 has the highest score and heads the kept list; the discarded
\* list is not empty
C21_Witness ==
    /\ Reduced
    /\ blk.index.v[1] = 0
    /\ ScoredAtLeast(0) = {}
    /\ blk.compl # <<>>
    /\ 0 \notin Range(blk.compl)

\* C22: for every keep rate in (0, 1) and every N >= 2 the keep count is
\* at least 1 and at most N - 1, the assertion of line 208 does not fail,
\* and a shorter sequence is built only from a keep count of at least 1
C22_KeepCountInRange ==
    (/\ pc = "len_done"
     /\ fn_in.keep_rate[1] < fn_in.keep_rate[2]
     /\ fn_in.N >= 2) =>
        /\ fn_out.left.some
        /\ 1 <= fn_out.left.v
        /\ fn_out.left.v <= fn_in.N - 1
        /\ fn_out.out.err # "AssertionError"
        /\ fn_out.out.n # fn_in.N => fn_out.out.n = 1 + fn_out.left.v + 1

\* the smallest rate on the longest sequence: one token is kept
C22_Witness ==
    /\ pc = "len_done"
    /\ fn_in.keep_rate = <<1, MaxRateDen>>
    /\ fn_in.N = MaxSeqLen
    /\ fn_out.left.v = 2
    /\ fn_out.out.n = 4

\* the steps of one stage, in the order the pass takes them
StageOrder ==
    {<<"block", "mlp">>, <<"mlp", "recover">>, <<"recover", "accum">>,
     <<"accum", "snap">>, <<"snap", "block">>, <<"snap", "head">>,
     <<"head", "done">>}

\* s with what one sublayer adds to every token
PlusResidual(s) ==
    [p \in DOMAIN s |-> [s[p] EXCEPT !.val = RatAdd(@, RatInt(Residual))]]

\* the sum over the discarded indices of score times the value the token
\* would have after the feed-forward sublayer
RECURSIVE WeightedSumAfterMlp(_)
WeightedSumAfterMlp(D) ==
    IF D = {} THEN RatInt(0)
    ELSE LET p == CHOOSE q \in D : TRUE
         IN  RatAdd(RatMul(RatAdd(blk.x_attn[p + 2].val, RatInt(Residual)), Score(p)),
                    WeightedSumAfterMlp(D \ {p}))

\* C23 (as claimed): the reduction runs after the attention and the
\* feed-forward sublayer: the fused token a reducing stage returns is the
\* weighted sum of the discarded tokens as the whole transform leaves them
C23_TransformThenReduction ==
    (pc = "recover" /\ blk.index.some) =>
        x[Len(x)].val = WeightedSumAfterMlp(Range(blk.compl))

\* C23 (amended): within each stage the attention sublayer runs first, then
\* the reduction if keep_rate < 1, on the tokens as the attention sublayer
\* leaves them, then the feed-forward sublayer on the sequence the
\* reduction leaves (the fused token included), then the recovery, then the
\* accumulation, then the snapshot of position 0
C23_StageOrder ==
    [][(pc \in PassPcs /\ pc' # pc /\ pc' # "error") =>
         /\ <<pc, pc'>> \in StageOrder
         /\ (pc = "block") =>
               /\ blk'.x_attn = PlusResidual(x)
               /\ x' = x
               /\ blk'.index.some =>
                     /\ blk'.x[1] = blk'.x_attn[1]
                     /\ \A j \in DOMAIN blk'.index.v :
                           blk'.x[j + 1] = blk'.x_attn[blk'.index.v[j] + 2]
               /\ ~blk'.index.some => blk'.x = blk'.x_attn
         /\ (pc = "mlp") => x' = PlusResidual(blk.x)
         /\ (pc = "snap" /\ cls_list'.some /\ cls_list' # cls_list) =>
               cls_list'.v = Append(cls_list.v, x[1])]_vars

\* a reducing stage has returned: its fused token went through the
\* feed-forward sublayer, the discarded tokens did not
C23_Witness ==
    /\ pc = "recover"
    /\ blk.index.some
    /\ Len(blk.compl) >= 1
    /\ x[Len(x)].kind = "fused"
    /\ x[Len(x)].val = RatAdd(WeightedSum(Range(blk.compl)), RatInt(Residual))
    /\ x[Len(x)].val # WeightedSumAfterMlp(Range(blk.compl))

\* the token range averaged by the global-pool carrier at this stage
PooledRange == Slice(x, 1, curr_num_pool)

\* C24 (as claimed): with the global-pool carrier on and clc_pool_cls and
\* clc_pool_clr off, the range averaged at an accumulating stage holds no
\* persistent carrier token and no token injected from the cache
C24_PooledRangeHasNoCarrier ==
    (/\ pc = "accum"
     /\ self.clc
     /\ self.clc_include_gap
     /\ ~self.clc_pool_cls
     /\ ~self.clc_pool_clr
     /\ self.recovery_layers # <<>>
     /\ accumulates_at(self, i)) =>
        \A p \in DOMAIN PooledRange :
            PooledRange[p].kind # "clr" /\ ~PooledRange[p].inj

\* the indices, in the non-class range of the stage's input, of the tokens
\* fused at an earlier stage
EarlierFused ==
    {p \in 0..(Len(blk.x_attn) - 2) :
        blk.x_attn[p + 2].kind = "fused" /\ blk.x_attn[p + 2].k < i}

\* C25: at a reducing stage the token fused at an earlier reducing stage has
\* a score and is selected by it like every other index: it is in exactly
\* one of the kept and the discarded list, kept when fewer than left other
\* indices score at least as high, discarded when at least left indices
\* score strictly higher
C25_FusedTokenNotExempt ==
    Reduced =>
        \A p \in EarlierFused :
            LET left == Len(blk.index.v)
            IN  /\ p + 1 \in DOMAIN blk.cls_attn
                /\ (p \in Range(blk.index.v)) # (p \in Range(blk.compl))
                /\ Cardinality(ScoredAtLeast(p)) < left => p \in Range(blk.index.v)
                /\ Cardinality(ScoredAbove(p)) >= left => p \in Range(blk.compl)

\* the token fused at an earlier stage is discarded at this reducing stage
\* while a patch is kept
C25_Witness ==
    /\ Reduced
    /\ \E p \in EarlierFused :
          /\ p \in Range(blk.compl)
          /\ Cardinality(ScoredAbove(p)) >= Len(blk.index.v)
    /\ \E q \in Range(blk.index.v) : blk.x_attn[q + 2].kind = "patch"

\* C26: with caching disabled the sequence never gets longer from one
\* stage to the next: a reducing stage turns N tokens into left + 2 <= N,
\* with equality exactly when left = N - 2; a non-reducing stage keeps the
\* length; nothing between two stages changes the sequence
C26_LengthNeverIncreasesWithoutCache ==
    /\ (pc = "recover" /\ ~self.clc) =>
          LET N == Len(blk.x_in)
          IN  /\ Len(x) <= N
              /\ blk.index.some =>
                    /\ blk.left_tokens = Len(blk.index.v)
                    /\ Len(x) = blk.left_tokens + 2
                    /\ (Len(x) = N) <=> (blk.left_tokens = N - 2)
              /\ ~blk.index.some => Len(x) = N
    /\ (pc \in {"accum", "snap"} /\ ~self.clc) => x = blk.x
    /\ (pc = "block" /\ i > 0 /\ ~self.clc) => Len(x) = Len(blk.x)

\* caching is disabled and a reducing stage whose input holds a token
\* fused at an earlier stage returns a sequence shorter than its input
C26_Witness ==
    /\ pc = "recover"
    /\ ~self.clc
    /\ blk.index.some
    /\ Len(x) < Len(blk.x_in)
    /\ blk.left_tokens < Len(blk.x_in) - 2
    /\ \E p \in DOMAIN blk.x_in : blk.x_in[p][1] = "fused"

StrictlyAscending(s) == \A j, k \in DOMAIN s : j < k => s[j] < s[k]

\* the number of stages since the previous recovery stage, or since the
\* start of the pass
EntriesDue ==
    LET prev == {r \in Range(self.recovery_layers) : r < i}
    IN  IF prev = {} THEN i
        ELSE i - (CHOOSE r \in prev : \A q \in prev : q <= r)

\* the tokens of one cache entry
CarrierCount ==
    (IF self.clc_include_gap THEN 1 ELSE 0)
    + (IF self.has_clr THEN self.num_clr ELSE 0)

AtRecoveryStage ==
    /\ self.clc
    /\ self.recovery_layers # <<>>
    /\ StrictlyAscending(self.recovery_layers)
    /\ self.recovery_layers[1] > 0
    /\ i \in Range(self.recovery_layers)

\* C27: with caching enabled and recovery_layers strictly ascending with a
\* first element > 0, a recovery stage finds in the buffer one entry per
\* stage since the previous recovery stage (r0 entries at the first), each
\* of T tokens, T = (1 if the global-pool carrier is on) + the number of
\* attached carrier tokens, and the sequence leaving the recovery is the
\* block's output plus E x T tokens
C27_InjectedEntryCount ==
    /\ (pc = "recover" /\ AtRecoveryStage) =>
          /\ Len(cross_layer_cache) = EntriesDue
          /\ \A k \in DOMAIN cross_layer_cache :
                Len(cross_layer_cache[k]) = CarrierCount
    /\ (pc = "accum" /\ AtRecoveryStage) =>
          /\ Len(x) = Len(blk.x) + EntriesDue * CarrierCount
          /\ curr_num_pool = Len(blk.x)
          /\ cross_layer_cache = <<>>

\* the second recovery stage has injected the one entry, of two tokens,
\* buffered since the first recovery stage
C27_Witness ==
    /\ pc = "accum"
    /\ AtRecoveryStage
    /\ Len(self.recovery_layers) = 2
    /\ i = self.recovery_layers[2]
    /\ CarrierCount = 2
    /\ EntriesDue = 1
    /\ Len(x) = Len(blk.x) + 2

\* C28 (as claimed): with ifa_head the pass records len(reduction_loc) + 1
\* snapshots of position 0, the number the head built by reset_classifier
\* takes, for every reduction_loc the constructor accepts
C28_SnapshotCountMatchesHead ==
    (pc = "head" /\ self.ifa_head) =>
        /\ cls_list.some
        /\ Len(cls_list.v) = Len(self.reduction_loc) + 1
        /\ ifa_head_err(self, cls_list.v) = ""

\* C29 (as claimed): after a successful construction with caching enabled
\* every accumulation step has at least one carrier, the pooled token or
\* the carrier tokens attached by add_clr
C29_CarrierSourceAvailable ==
    (/\ pc = "accum"
     /\ self.clc
     /\ self.recovery_layers # <<>>
     /\ accumulates_at(self, i)) =>
        /\ self.clc_include_gap \/ self.has_clr
        /\ cross_layer_carriers_of(self, x, curr_num_pool, i) # <<>>

\* C30: a reducing stage returns as its trace the kept indices followed by
\* one -1, the only -1 in it, of length left + 1, which is the number of
\* tokens after position 0 in its output and the token count it returns; a
\* non-reducing stage returns no trace
C30_SelectionTrace ==
    (pc = "recover") =>
        /\ blk.index.some =>
              /\ blk.ret_idx.some
              /\ blk.ret_idx.v = blk.index.v \o <<-1>>
              /\ Cardinality({j \in DOMAIN blk.ret_idx.v : blk.ret_idx.v[j] = -1}) = 1
              /\ Len(blk.ret_idx.v) = blk.left_tokens + 1
              /\ Len(blk.ret_idx.v) = Len(x) - 1
              /\ Len(blk.ret_idx.v) = blk.n_tokens
        /\ ~blk.index.some =>
              /\ ~blk.ret_idx.some
              /\ ~blk.ret_compl.some
              /\ blk.n_tokens = Len(x) - 1

\* a reducing stage has returned a trace of two kept indices and the -1
C30_Witness ==
    /\ pc = "recover"
    /\ blk.index.some
    /\ blk.ret_idx.some
    /\ Len(blk.ret_idx.v) = 3
    /\ blk.ret_idx.v[3] = -1
    /\ blk.n_tokens = 3
    /\ Len(x) = 4

====
